---- MODULE Spec2Model ----
(***************************************************************************)
(* Transaction-fee economics of sdk/program/src/fee_calculator.rs:         *)
(* FeeCalculator, FeeRateGovernor and the governor's unit tests.           *)
(*                                                                         *)
(* The source computes on u64.  TLC's integers are 32 bits wide, so the    *)
(* machine word is modelled with WordBits bits; every product and          *)
(* difference the source computes is reduced modulo 2^WordBits exactly     *)
(* where the source's arithmetic would wrap or fault.                      *)
(***************************************************************************)
EXTENDS Integers, Sequences, FiniteSets, TLC

\* ------------------------------------------------------------------------
\* Machine arithmetic
\* ------------------------------------------------------------------------

\* Width of the unsigned machine word (u64 in the source), scaled down.
WordBits == 16

Modulus == 2 ^ WordBits

\* std::u64::MAX
U64_MAX == Modulus - 1

\* std::u8::MAX, the largest value burn_percent can hold
U8_MAX == 255

Wrap(n) == n % Modulus

\* ------------------------------------------------------------------------
\* Constants of fee_calculator.rs
\* ------------------------------------------------------------------------

CONSTANT_TRANSACTION_FEE_LAMPORTS == 10000

DEFAULT_TARGET_LAMPORTS_PER_SIGNATURE == CONSTANT_TRANSACTION_FEE_LAMPORTS

DEFAULT_TARGET_SIGNATURES_PER_SLOT == 0

DEFAULT_BURN_PERCENT == 0

\* ------------------------------------------------------------------------
\* FeeCalculator
\* ------------------------------------------------------------------------

\* FeeCalculator::new
FeeCalculator_new(lamports_per_signature) ==
    [lamports_per_signature |-> lamports_per_signature]

\* #[derive(Default)] on FeeCalculator: every field zero
FeeCalculator_default == [lamports_per_signature |-> 0]

\* The pre-fork body: lamports_per_signature times the signatures the
\* message carries, precompile signatures included.
RECURSIVE SecpSignatures(_)
SecpSignatures(ixs) ==
    IF ixs = <<>> THEN 0
    ELSE (IF Head(ixs).program = "secp256k1" /\ Head(ixs).data # <<>>
             THEN Head(ixs).data[1] ELSE 0)
         + SecpSignatures(Tail(ixs))

calculate_fee_per_signature(self, message) ==
    Wrap(self.lamports_per_signature
           * (message.num_required_signatures
                + SecpSignatures(message.instructions)))

\* FeeCalculator::calculate_fee: the message and self are not read
calculate_fee(self, message) == DEFAULT_TARGET_LAMPORTS_PER_SIGNATURE

\* ------------------------------------------------------------------------
\* FeeRateGovernor
\* ------------------------------------------------------------------------

\* default() with the current rate left unset, as the serde(skip) field
\* is after deserialization
FeeRateGovernor_default_unset ==
    [lamports_per_signature        |-> 0,
     target_lamports_per_signature |-> CONSTANT_TRANSACTION_FEE_LAMPORTS,
     target_signatures_per_slot    |-> 0,
     min_lamports_per_signature    |-> CONSTANT_TRANSACTION_FEE_LAMPORTS,
     max_lamports_per_signature    |-> CONSTANT_TRANSACTION_FEE_LAMPORTS,
     burn_percent                  |-> DEFAULT_BURN_PERCENT]

\* impl Default for FeeRateGovernor
FeeRateGovernor_default ==
    [lamports_per_signature        |-> CONSTANT_TRANSACTION_FEE_LAMPORTS,
     target_lamports_per_signature |-> CONSTANT_TRANSACTION_FEE_LAMPORTS,
     target_signatures_per_slot    |-> 0,
     min_lamports_per_signature    |-> CONSTANT_TRANSACTION_FEE_LAMPORTS,
     max_lamports_per_signature    |-> CONSTANT_TRANSACTION_FEE_LAMPORTS,
     burn_percent                  |-> DEFAULT_BURN_PERCENT]

\* new_derived as with adjustment disabled before the fork: the current,
\* minimum and maximum rate follow the base's target, which is kept
new_derived_from_base_target(base_fee_rate_governor, latest_signatures_per_slot) ==
    [base_fee_rate_governor EXCEPT
        !.lamports_per_signature     = base_fee_rate_governor.target_lamports_per_signature,
        !.min_lamports_per_signature = base_fee_rate_governor.target_lamports_per_signature,
        !.max_lamports_per_signature = base_fee_rate_governor.target_lamports_per_signature]

\* new_derived with the target and the throughput target of the base kept
new_derived_keep_target(base_fee_rate_governor, latest_signatures_per_slot) ==
    [base_fee_rate_governor EXCEPT
        !.lamports_per_signature     = CONSTANT_TRANSACTION_FEE_LAMPORTS,
        !.min_lamports_per_signature = CONSTANT_TRANSACTION_FEE_LAMPORTS,
        !.max_lamports_per_signature = CONSTANT_TRANSACTION_FEE_LAMPORTS]

\* FeeRateGovernor::new_derived: clone the base, then force every rate
\* field to the constant and the throughput target to 0
new_derived(base_fee_rate_governor, latest_signatures_per_slot) ==
    [base_fee_rate_governor EXCEPT
        !.lamports_per_signature        = CONSTANT_TRANSACTION_FEE_LAMPORTS,
        !.target_lamports_per_signature = CONSTANT_TRANSACTION_FEE_LAMPORTS,
        !.min_lamports_per_signature    = CONSTANT_TRANSACTION_FEE_LAMPORTS,
        !.max_lamports_per_signature    = CONSTANT_TRANSACTION_FEE_LAMPORTS,
        !.target_signatures_per_slot    = 0]

\* new that seeds the governor from its arguments and does not derive
FeeRateGovernor_new_seeded(target_lamports_per_signature, target_signatures_per_slot) ==
    [FeeRateGovernor_default EXCEPT
        !.target_lamports_per_signature = target_lamports_per_signature,
        !.target_signatures_per_slot    = target_signatures_per_slot]

\* FeeRateGovernor::new: a literal over default(), then new_derived(.., 0)
FeeRateGovernor_new(target_lamports_per_signature, target_signatures_per_slot) ==
    new_derived(
        [FeeRateGovernor_default EXCEPT
            !.target_lamports_per_signature = CONSTANT_TRANSACTION_FEE_LAMPORTS,
            !.lamports_per_signature        = CONSTANT_TRANSACTION_FEE_LAMPORTS,
            !.target_signatures_per_slot    = 0,
            !.min_lamports_per_signature    = CONSTANT_TRANSACTION_FEE_LAMPORTS,
            !.max_lamports_per_signature    = CONSTANT_TRANSACTION_FEE_LAMPORTS],
        0)

\* clone that overrides the target rate instead of the current rate
clone_with_target_lamports_per_signature(self, lamports_per_signature) ==
    [self EXCEPT !.target_lamports_per_signature = lamports_per_signature]

\* FeeRateGovernor::clone_with_lamports_per_signature
clone_with_lamports_per_signature(self, lamports_per_signature) ==
    [self EXCEPT !.lamports_per_signature = lamports_per_signature]

\* FeeRateGovernor::create_fee_calculator
create_fee_calculator(self) == FeeCalculator_new(self.lamports_per_signature)


\* ------------------------------------------------------------------------
\* State
\* ------------------------------------------------------------------------

VARIABLES
    overflow_checks,  \* build profile: integer overflow faults (TRUE) or wraps
    gov,              \* the FeeRateGovernor value in hand
    base,             \* the governor the last call was made on or derived from
    calc,             \* the FeeCalculator value in hand
    msg,              \* the message last passed to calculate_fee
    op,               \* the last call
    arg,              \* its integer arguments
    ret,              \* what it returned, when not a governor or calculator
    test_target,      \* test_fee_rate_governor_derived_adjust: literal's target
    test_slots,       \*   and its target_signatures_per_slot
    test_pc,          \*   position in the test
    test_f,           \*   its local f
    test_count        \*   its local count

vars == <<overflow_checks, gov, base, calc, msg, op, arg, ret, test_target, test_slots, test_pc, test_f, test_count>>

govVars == <<gov, base, calc, msg, op, arg, ret>>

testVars == <<test_target, test_slots, test_pc, test_f, test_count>>

\* FeeRateGovernor::burn.  The product and the difference are plain u64
\* operators: a build with overflow checks faults where the exact result
\* leaves the word, a build without them keeps the result modulo 2^WordBits.
burn(self, fees) ==
    LET product  == fees * self.burn_percent
        burned   == Wrap(product) \div 100
        overflow == product > U64_MAX \/ burned > fees
    IN  IF overflow /\ overflow_checks
        THEN [status |-> "panic", unburned |-> 0, burned |-> 0, fee |-> 0]
        ELSE [status |-> "ok", unburned |-> Wrap(fees - burned), burned |-> burned, fee |-> 0]

\* ------------------------------------------------------------------------
\* Inputs
\* ------------------------------------------------------------------------

\* Values of the u64 rate fields and rate arguments
Rates == {0, 1, 100, DEFAULT_TARGET_LAMPORTS_PER_SIGNATURE \div 2, CONSTANT_TRANSACTION_FEE_LAMPORTS, U64_MAX}

\* Values of latest_signatures_per_slot and target_signatures_per_slot
Throughputs == {0, 1, 100, 20000, U64_MAX}

\* Values of burn_percent, a u8
BurnPercents == {0, 1, 50, 100, U8_MAX}

\* Fee totals handed to burn, on both sides of the overflow of fees * 100
Fees == {0, 1, 2, 3, 199, U64_MAX \div 100, U64_MAX \div 100 + 1, U64_MAX \div 2, U64_MAX - 1, U64_MAX}

\* FeeRateGovernor values built as literals: the struct's fields are public,
\* any combination can be built.  The values with the minimum and the
\* maximum at the constant come from the constructors.
Governors ==
    [lamports_per_signature        : {0, CONSTANT_TRANSACTION_FEE_LAMPORTS, U64_MAX},
     target_lamports_per_signature : {100, CONSTANT_TRANSACTION_FEE_LAMPORTS},
     target_signatures_per_slot    : {0, 100},
     min_lamports_per_signature    : {50},
     max_lamports_per_signature    : {1000},
     burn_percent                  : BurnPercents]

Transfer == [program |-> "system", data |-> <<2>>]

Secp(d) == [program |-> "secp256k1", data |-> d]

\* Instruction lists of the messages of the tests
InstructionLists ==
    {<<>>,
     <<Transfer>>,
     <<Transfer, Transfer>>,
     <<Transfer, Secp(<<>>), Secp(<<1>>)>>,
     <<Transfer, Secp(<<0>>), Secp(<<10>>)>>}

MaxSignatures == 2

Messages == [num_required_signatures : 0..MaxSignatures, instructions : InstructionLists]

NoMessage == [num_required_signatures |-> 0, instructions |-> <<>>]

NoArg == [a |-> 0, b |-> 0]

NoRet == [status |-> "none", unburned |-> 0, burned |-> 0, fee |-> 0]


\* ------------------------------------------------------------------------
\* Calls on the governor and the calculator
\* ------------------------------------------------------------------------

\* let g = FeeRateGovernor::default()
Default ==
    /\ gov' = FeeRateGovernor_default
    /\ base' = gov
    /\ op' = "default"
    /\ arg' = NoArg
    /\ ret' = NoRet
    /\ msg' = NoMessage
    /\ UNCHANGED <<overflow_checks, calc, testVars>>

\* let g = FeeRateGovernor::new(a, b)
New ==
    \E a \in Rates, b \in Throughputs :
        /\ gov' = FeeRateGovernor_new(a, b)
        /\ base' = gov'
        /\ op' = "new"
        /\ arg' = [a |-> a, b |-> b]
        /\ ret' = NoRet
        /\ msg' = NoMessage
        /\ UNCHANGED <<overflow_checks, calc, testVars>>

\* g = FeeRateGovernor::new_derived(&g, t)
NewDerived ==
    \E t \in Throughputs :
        /\ gov' = new_derived(gov, t)
        /\ base' = gov
        /\ op' = "new_derived"
        /\ arg' = [a |-> t, b |-> 0]
        /\ ret' = NoRet
        /\ msg' = NoMessage
        /\ UNCHANGED <<overflow_checks, calc, testVars>>

\* g = g.clone_with_lamports_per_signature(r)
CloneWithLamportsPerSignature ==
    \E r \in Rates :
        /\ gov' = clone_with_lamports_per_signature(gov, r)
        /\ base' = gov
        /\ op' = "clone_with_lamports_per_signature"
        /\ arg' = [a |-> r, b |-> 0]
        /\ ret' = NoRet
        /\ msg' = NoMessage
        /\ UNCHANGED <<overflow_checks, calc, testVars>>

\* g.burn(fees)
Burn ==
    \E fees \in Fees :
        /\ ret' = burn(gov, fees)
        /\ base' = gov
        /\ op' = "burn"
        /\ arg' = [a |-> fees, b |-> 0]
        /\ msg' = NoMessage
        /\ UNCHANGED <<overflow_checks, gov, calc, testVars>>

\* let c = g.create_fee_calculator()
CreateFeeCalculator ==
    /\ calc' = create_fee_calculator(gov)
    /\ base' = gov
    /\ op' = "create_fee_calculator"
    /\ arg' = NoArg
    /\ ret' = NoRet
    /\ msg' = NoMessage
    /\ UNCHANGED <<overflow_checks, gov, testVars>>

\* let c = FeeCalculator::new(l)
FeeCalculatorNew ==
    \E l \in {1, 2} :
        /\ calc' = FeeCalculator_new(l)
        /\ base' = gov
        /\ op' = "FeeCalculator::new"
        /\ arg' = [a |-> l, b |-> 0]
        /\ ret' = NoRet
        /\ msg' = NoMessage
        /\ UNCHANGED <<overflow_checks, gov, testVars>>

\* let c = FeeCalculator::default()
FeeCalculatorDefault ==
    /\ calc' = FeeCalculator_default
    /\ base' = gov
    /\ op' = "FeeCalculator::default"
    /\ arg' = NoArg
    /\ ret' = NoRet
    /\ msg' = NoMessage
    /\ UNCHANGED <<overflow_checks, gov, testVars>>

\* c.calculate_fee(&message)
CalculateFee ==
    \E m \in Messages :
        /\ ret' = [NoRet EXCEPT !.status = "ok", !.fee = calculate_fee(calc, m)]
        /\ msg' = m
        /\ base' = gov
        /\ op' = "calculate_fee"
        /\ arg' = NoArg
        /\ UNCHANGED <<overflow_checks, gov, calc, testVars>>

TestIdle ==
    /\ test_target = 100
    /\ test_slots = 100
    /\ test_pc = "start"
    /\ test_f = FeeRateGovernor_default
    /\ test_count = 0

\* Any governor value, either build profile, the default calculator
Init ==
    /\ overflow_checks \in BOOLEAN
    /\ gov \in Governors
    /\ base = gov
    /\ calc = FeeCalculator_default
    /\ msg = NoMessage
    /\ op = "init"
    /\ arg = NoArg
    /\ ret = NoRet
    /\ TestIdle

Next ==
    \/ Default
    \/ New
    \/ NewDerived
    \/ CloneWithLamportsPerSignature
    \/ Burn
    \/ CreateFeeCalculator
    \/ FeeCalculatorNew
    \/ FeeCalculatorDefault
    \/ CalculateFee

Spec == Init /\ [][Next]_vars

\* ------------------------------------------------------------------------
\* Governors built by the constructors and the two derivations only
\* ------------------------------------------------------------------------

InitReach ==
    /\ overflow_checks \in BOOLEAN
    /\ gov = FeeRateGovernor_default
    /\ base = gov
    /\ calc = FeeCalculator_default
    /\ msg = NoMessage
    /\ op = "default"
    /\ arg = NoArg
    /\ ret = NoRet
    /\ TestIdle

NextReach ==
    \/ Default
    \/ New
    \/ NewDerived
    \/ CloneWithLamportsPerSignature

SpecReach == InitReach /\ [][NextReach]_vars


\* ------------------------------------------------------------------------
\* test_fee_rate_governor_derived_adjust
\* ------------------------------------------------------------------------

\* assert!(count < 1000) of the two ramp loops
MaxRampSteps == 1000

\* assert!(count < 100) of the loop that arrives at the target
MaxTargetSteps == 100

\* let mut f = FeeRateGovernor { target_lamports_per_signature: ..,
\* target_signatures_per_slot: .., ..default() }; f = new_derived(&f, 0)
TestBuild ==
    /\ test_pc = "start"
    /\ test_f' = new_derived(
                    [FeeRateGovernor_default EXCEPT
                        !.target_lamports_per_signature = test_target,
                        !.target_signatures_per_slot    = test_slots],
                    0)
    /\ test_count' = 0
    /\ test_pc' = "up"
    /\ UNCHANGED <<overflow_checks, govVars, test_target, test_slots>>

\* One pass of a ramp loop: derive with throughput t, leave the loop for
\* `after` when the rate did not change, else assert and count
RampStep(t, after) ==
    LET f == new_derived(test_f, t)
    IN  /\ test_f' = f
        /\ IF f.lamports_per_signature = test_f.lamports_per_signature
           THEN test_pc' = after /\ test_count' = 0
           ELSE IF test_count < MaxRampSteps
                THEN test_pc' = test_pc /\ test_count' = test_count + 1
                ELSE test_pc' = "assert_failed" /\ test_count' = test_count
        /\ UNCHANGED <<overflow_checks, govVars, test_target, test_slots>>

\* Ramp fees up: f = new_derived(&f, std::u64::MAX)
TestRampUp ==
    /\ test_pc = "up"
    /\ RampStep(U64_MAX, "down")

\* Ramp fees down: f = new_derived(&f, 0)
TestRampDown ==
    /\ test_pc = "down"
    /\ RampStep(0, "target")

\* Arrive at target rate: while f.lamports_per_signature !=
\* f.target_lamports_per_signature, derive with the target throughput
TestArrive ==
    /\ test_pc = "target"
    /\ IF test_f.lamports_per_signature = test_f.target_lamports_per_signature
       THEN test_pc' = "done" /\ UNCHANGED <<test_f, test_count>>
       ELSE /\ test_f' = new_derived(test_f, test_f.target_signatures_per_slot)
            /\ IF test_count < MaxTargetSteps
               THEN test_pc' = test_pc /\ test_count' = test_count + 1
               ELSE test_pc' = "assert_failed" /\ test_count' = test_count
    /\ UNCHANGED <<overflow_checks, govVars, test_target, test_slots>>

\* The test with the two fields of its literal drawn from the input sets;
\* the source's literal has 100 and 100
InitTest ==
    /\ overflow_checks \in BOOLEAN
    /\ gov = FeeRateGovernor_default
    /\ base = gov
    /\ calc = FeeCalculator_default
    /\ msg = NoMessage
    /\ op = "init"
    /\ arg = NoArg
    /\ ret = NoRet
    /\ test_target \in Rates
    /\ test_slots \in Throughputs
    /\ test_pc = "start"
    /\ test_f = FeeRateGovernor_default
    /\ test_count = 0

NextTest ==
    \/ TestBuild
    \/ TestRampUp
    \/ TestRampDown
    \/ TestArrive

SpecTest == InitTest /\ [][NextTest]_vars


\* ------------------------------------------------------------------------
\* Properties
\* ------------------------------------------------------------------------

\* The fee-rate fields and the throughput target as the fixed-fee policy
\* leaves them
IsFixedFee(g) ==
    /\ g.lamports_per_signature        = CONSTANT_TRANSACTION_FEE_LAMPORTS
    /\ g.target_lamports_per_signature = CONSTANT_TRANSACTION_FEE_LAMPORTS
    /\ g.min_lamports_per_signature    = CONSTANT_TRANSACTION_FEE_LAMPORTS
    /\ g.max_lamports_per_signature    = CONSTANT_TRANSACTION_FEE_LAMPORTS
    /\ g.target_signatures_per_slot    = 0

\* floor(fees * burn_percent / 100) in exact arithmetic
ExactBurned(fees, burn_percent) == (fees * burn_percent) \div 100

\* C1: for every fees and every burn_percent in 0..100, burn returns
\* (unburned, burned) with burned = floor(fees * burn_percent / 100) in exact
\* arithmetic and unburned + burned = fees; burn_percent 0 gives (fees, 0),
\* burn_percent 100 gives (0, fees), burn_percent 50 with fees 2 gives (1, 1).
C1_BurnSplitsExactly ==
    (op = "burn" /\ base.burn_percent <= 100) =>
        /\ ret.status = "ok"
        /\ ret.burned = ExactBurned(arg.a, base.burn_percent)
        /\ ret.unburned + ret.burned = arg.a
        /\ base.burn_percent = 0 => (ret.unburned = arg.a /\ ret.burned = 0)
        /\ base.burn_percent = 100 => (ret.unburned = 0 /\ ret.burned = arg.a)
        /\ (base.burn_percent = 50 /\ arg.a = 2) => (ret.unburned = 1 /\ ret.burned = 1)

SignatureCount(m) == m.num_required_signatures + SecpSignatures(m.instructions)

\* C4: calculate_fee is lamports_per_signature times the number of signatures
\* the message requires, precompile signatures included: 0 for the default
\* calculator, 0 for a message without signatures, 2 and 4 for new(2) with one
\* and two required signatures, 11 for new(1) with one required signature and
\* a precompile instruction whose data begins with 10.
C4_CalculateFeePerSignature ==
    op = "calculate_fee" =>
        ret.fee = calc.lamports_per_signature * SignatureCount(msg)

\* C5: new(a, b) ignores its arguments: the result is
\* new_derived(default(), 0) field for field, every rate field the constant,
\* the throughput target 0, burn_percent the default, and equals the result of
\* new with any other arguments.
C5_NewIgnoresArguments ==
    op = "new" =>
        /\ gov = new_derived(FeeRateGovernor_default, 0)
        /\ IsFixedFee(gov)
        /\ gov.burn_percent = DEFAULT_BURN_PERCENT
        /\ \A a \in Rates, b \in Throughputs : FeeRateGovernor_new(a, b) = gov

\* new called with a target rate and a throughput target that both differ
\* from what the result holds
C5_Witness ==
    /\ op = "new"
    /\ arg.a = 100
    /\ arg.b = 100
    /\ gov.target_lamports_per_signature # arg.a
    /\ gov.target_signatures_per_slot # arg.b

C7_DefaultUnsetThenHalved ==
    /\ op = "default" => gov.lamports_per_signature = 0
    /\ (op = "new_derived" /\ base = FeeRateGovernor_default
            /\ arg.a = DEFAULT_TARGET_SIGNATURES_PER_SLOT) =>
          /\ gov.target_signatures_per_slot = DEFAULT_TARGET_SIGNATURES_PER_SLOT
          /\ gov.target_lamports_per_signature = DEFAULT_TARGET_LAMPORTS_PER_SIGNATURE
          /\ gov.lamports_per_signature = DEFAULT_TARGET_LAMPORTS_PER_SIGNATURE \div 2

\* C8: when fees * burn_percent exceeds u64::MAX, with burn_percent in
\* 1..100, burn ends in an overflow fault; it never returns a burned amount
\* other than floor(fees * burn_percent / 100).
C8_BurnOverflowFaults ==
    (op = "burn" /\ base.burn_percent \in 1..100) =>
        /\ arg.a * base.burn_percent > U64_MAX => ret.status = "panic"
        /\ ret.status = "ok" => ret.burned = ExactBurned(arg.a, base.burn_percent)

\* C9: the test's chain converges.  Each loop of the test either leaves, or
\* counts a step, or fails its assertion once the count has reached the limit
\* (1000, 1000, 100); so the assertions never failing, the counts staying
\* within the limits and the chain ending at the target rate is the claim.
C9_DerivedAdjustConverges ==
    /\ test_pc # "assert_failed"
    /\ test_pc \in {"up", "down"} => test_count <= MaxRampSteps
    /\ test_pc = "target" => test_count <= MaxTargetSteps
    /\ test_pc = "done" =>
          test_f.lamports_per_signature = test_f.target_lamports_per_signature

\* The test as written, target 100 and throughput target 100, run to its end
C9_Witness ==
    /\ test_target = 100
    /\ test_slots = 100
    /\ test_pc = "done"
    /\ test_f.lamports_per_signature = test_f.target_lamports_per_signature

\* C10: in every governor reached from default() or new(a, b) by new_derived
\* and clone_with_lamports_per_signature steps, burn_percent <= 100, and
\* min <= lamports_per_signature <= max whenever target_signatures_per_slot is
\* not 0; clone_with_lamports_per_signature changes lamports_per_signature
\* only, and new_derived leaves burn_percent as it was.
C10_ReachableGovernors ==
    /\ gov.burn_percent <= 100
    /\ gov.target_signatures_per_slot # 0 =>
          /\ gov.min_lamports_per_signature <= gov.lamports_per_signature
          /\ gov.lamports_per_signature <= gov.max_lamports_per_signature
    /\ op = "clone_with_lamports_per_signature" =>
          /\ gov.lamports_per_signature = arg.a
          /\ gov.target_lamports_per_signature = base.target_lamports_per_signature
          /\ gov.target_signatures_per_slot = base.target_signatures_per_slot
          /\ gov.min_lamports_per_signature = base.min_lamports_per_signature
          /\ gov.max_lamports_per_signature = base.max_lamports_per_signature
          /\ gov.burn_percent = base.burn_percent
    /\ op = "new_derived" => gov.burn_percent = base.burn_percent

\* A clone that put the rate above the maximum, then a derivation from it:
\* the rate leaves [min, max] only while adjustment is off
C10_Witness ==
    /\ op = "clone_with_lamports_per_signature"
    /\ arg.a = U64_MAX
    /\ gov.lamports_per_signature > gov.max_lamports_per_signature
    /\ base.lamports_per_signature < base.min_lamports_per_signature
    /\ gov.target_signatures_per_slot = 0

====
